---- MODULE Spec2Model ----
(***************************************************************************)
(* The AudioVisualizer component of astro-audio-visualizer (the later of   *)
(* the two versions in src/src/components/TimeSeriesVisualizer.tsx, lines  *)
(* 838-1121) together with its TimeSeriesVisualizer and                    *)
(* SpectrographVisualizer children, as a state machine.                    *)
(*                                                                         *)
(* One action is one event of the page (a click, a slider move, the        *)
(* settling of the getUserMedia promise, one animation frame, new audio at *)
(* the analyser) followed by the React commit it causes: the batched state *)
(* updates, the re-render and every effect whose dependencies changed.     *)
(*                                                                         *)
(* Numbers.  Amplitudes are fixed point: a hardware sample s stands for    *)
(* s/1000, a gain g for g/10 (the slider's step), so an amplified sample a *)
(* = s * g stands for a/10000.  Float32 rounding is not modelled.          *)
(*                                                                         *)
(* Null.  A nullable value is a sequence of length at most one: << >> is   *)
(* null and <<v>> is the value v.                                          *)
(***************************************************************************)
EXTENDS Integers, Sequences, FiniteSets, TLC

(***************************************************************************)
(* Bounds of the model.                                                    *)
(***************************************************************************)
\* Length of one sample buffer (analyser.frequencyBinCount; 1024 in the build).
BufLen == 2
\* Most buffers held by recordedData.
MaxRec == 3
\* Most requestAnimationFrame callbacks pending at once.
MaxLoops == 2
\* Most entries of a visualizer history in the short-run specification.
MaxHist == 2
\* Most frames of one playback.
MaxPlaybackIndex == 2
\* Most buffers and frames in the long-run specification.
MaxLongRec == 303
\* Frames of the long time-series run (beyond the 500 the chart keeps).
MaxLongSeries == 503
\* Largest sample, in thousandths, of the inputs that sweep the colour ramp.
MaxRampSample == 260

(***************************************************************************)
(* Program constants.                                                      *)
(***************************************************************************)
\* SpectrographVisualizer: historyLengthRef = useRef(300)
HistoryLength == 300
\* SpectrographVisualizer.processSpectrum: new Uint8Array(256)
SpectrumBins == 256
\* TimeSeriesVisualizer: keep only the last 500 points
TimeSeriesLength == 500
\* useState(1) for gain, in tenths
InitialGain == 10

\* useState(1) for timeScale, in tenths
InitialTimeScale == 10

\* The positions of the time-scale slider the model moves it to (min 0.1,
\* max 5, step 0.1, in tenths).
TimeScaleValues == {10, 20}

\* The values a control of the SettingsPanel may take (the Select of the
\* input device, defaultValue "default"; "changed" stands for any other item).
SettingsValues == {"default", "changed"}

\* The positions of the gain slider the model moves it to (min 0.1, max 10,
\* step 0.1, in tenths).
GainValues == {10, 25}

\* The tabs of the Tabs list.
TabValues == {"waveform", "spectrum", "spectrograph", "timeSeries"}

\* The analyser's time-domain buffer before any audio has been processed.
Silence == [i \in 1..BufLen |-> 0]

\* The time-domain buffers the hardware may present (values in -1000..1000).
InputBuffers ==
  { [i \in 1..BufLen |-> IF i = k THEN -600 ELSE 100] : k \in {1} }

Null == << >>

\* A canvas nothing has been drawn on (or that is not mounted).
Blank == << >>

\* The identity of a Float32Array that is no element of recordedData
\* ("new Float32Array(...)" handed to setAudioData, or a buffer of a recording
\* that Start Recording has discarded).
FreshRef == 0

Abs(x) == IF x < 0 THEN -x ELSE x

Min(a, b) == IF a < b THEN a ELSE b

Max(a, b) == IF a > b THEN a ELSE b

RECURSIVE SumAbs(_)
SumAbs(s) == IF s = << >> THEN 0 ELSE Abs(Head(s)) + SumAbs(Tail(s))

RECURSIVE SumLengths(_)
SumLengths(arrays) ==
  IF arrays = << >> THEN 0 ELSE Len(Head(arrays)) + SumLengths(Tail(arrays))

VARIABLES
  isRecording,         \* useState(false)
  audioData,           \* useState<Float32Array | null>(null): << >> or <<buffer>>
  audioDataRef,        \* which object audioData is: k for the very array that
                       \* is recordedData[k], FreshRef for any other
  audioContext,        \* useState<AudioContext | null>(null): TRUE once created
  analyser,            \* useState<AnalyserNode | null>(null): TRUE once installed
  visualizationType,   \* useState('waveform')
  gain,                \* useState(1), in tenths
  recordedData,        \* useState<Float32Array[]>([])
  isPlaying,           \* useState(false)
  playbackIndex,       \* useState(0)
  playbackRef,         \* useRef<number | null>(null): 0 is null, else the frame id
  stream,              \* the getUserMedia request: "none", "pending", "open", "failed"
  timeDomainData,      \* what analyser.getFloatTimeDomainData currently yields
  rafQueue,            \* the callbacks requestAnimationFrame holds, oldest first
  timeSeriesData,      \* TimeSeriesVisualizer: useState<number[]>([])
  spectrumHistory,     \* SpectrographVisualizer: useState<Uint8Array[]>([])
  contextsCreated,     \* how many AudioContext objects have been constructed
  streamRequests,      \* how many getUserMedia requests have been issued
  canvas,              \* what each visual component's canvas shows: per tab
                       \* the outcome of its last draw, << >> while blank
  fillStyles,          \* the cells the spectrograph's last draw painted: per
                       \* intensity drawn, the fillStyle rgb(r, g, b) used
  timeScale,           \* useState(1), in tenths
  showSettings,        \* useState(false)
  settingsControl,     \* the value of a control of the open SettingsPanel
  unmountInactive,     \* whether TabsContent renders the content of the
                       \* selected tab only
  lastEvent,           \* the event the last step handled
  toast,               \* title of the toast the last step raised, "" if none
  saved                \* what the last step offered for download: << >> or
                       \* <<[mergedArray |-> ..., offset |-> ...]>>

vars ==
  << isRecording, audioData, audioDataRef, audioContext, analyser,
     visualizationType, gain, recordedData, isPlaying, playbackIndex,
     playbackRef, stream, timeDomainData, rafQueue, timeSeriesData,
     spectrumHistory, canvas, fillStyles, timeScale, showSettings,
     settingsControl, contextsCreated, streamRequests, unmountInactive,
     lastEvent, toast, saved >>

\* The count of the audio resources acquired.
resourceVars == << contextsCreated, streamRequests >>

\* The state of the display-only controls.
displayVars == << timeScale, showSettings, settingsControl >>

\* The state of the AudioVisualizer component and of its children.
componentState ==
  << isRecording, audioData, audioDataRef, audioContext, analyser,
     visualizationType, gain, recordedData, isPlaying, playbackIndex,
     playbackRef, stream, rafQueue, timeSeriesData, spectrumHistory, canvas,
     fillStyles, timeScale, showSettings, settingsControl, contextsCreated,
     streamRequests >>

\* The state after the first render, the analyser's buffer holding input and
\* TabsContent unmounting the content of an unselected tab iff unmount.
InitFrom(input, unmount) ==
  /\ isRecording = FALSE
  /\ audioData = Null
  /\ audioDataRef = FreshRef
  /\ audioContext = FALSE
  /\ analyser = FALSE
  /\ visualizationType = "waveform"
  /\ gain = InitialGain
  /\ recordedData = << >>
  /\ isPlaying = FALSE
  /\ playbackIndex = 0
  /\ playbackRef = 0
  /\ stream = "none"
  /\ timeDomainData = input
  /\ rafQueue = << >>
  /\ timeSeriesData = << >>
  /\ spectrumHistory = << >>
  /\ canvas = [t \in TabValues |->
                 IF t = "waveform" THEN <<"placeholder">> ELSE Blank]
  /\ fillStyles = {}
  /\ contextsCreated = 0
  /\ streamRequests = 0
  /\ timeScale = InitialTimeScale
  /\ showSettings = FALSE
  /\ settingsControl = "default"
  /\ unmountInactive = unmount
  /\ lastEvent = "mount"
  /\ toast = ""
  /\ saved = Null

\* TabsContent is used without forceMount: the content of a tab that is not
\* selected is not rendered, its component is unmounted.  The analyser's
\* buffer starts zero-filled.
Init == InitFrom(Silence, TRUE)


(***************************************************************************)
(* Pure functions of the components.                                       *)
(***************************************************************************)
\* updateData: dataArray.map(value => value * gain)
Amplify(dataArray, g) == [i \in 1..Len(dataArray) |-> dataArray[i] * g]

\* TimeSeriesVisualizer: the mean absolute amplitude of a buffer (the quotient
\* is truncated to the fixed-point unit).
NewDataPoint(ad) == SumAbs(ad) \div Len(ad)

\* Mutant of TimeSeriesAccumulate: the test of isActive is missing.
TimeSeriesAccumulateAlways(prev, ad, isActive) ==
  IF ad = Null
    THEN prev
    ELSE LET newData == Append(prev, NewDataPoint(ad[1]))
         IN  IF Len(newData) > TimeSeriesLength
               THEN SubSeq(newData, Len(newData) - TimeSeriesLength + 1,
                           Len(newData))
               ELSE newData

\* Mutant of TimeSeriesAccumulate: the first 500 points are kept, not the last.
TimeSeriesAccumulateKeepsFirst(prev, ad, isActive) ==
  IF ad = Null \/ ~isActive
    THEN prev
    ELSE LET newData == Append(prev, NewDataPoint(ad[1]))
         IN  IF Len(newData) > TimeSeriesLength
               THEN SubSeq(newData, 1, TimeSeriesLength)
               ELSE newData

\* TimeSeriesVisualizer: the accumulate effect, for the props (ad, isActive).
TimeSeriesAccumulate(prev, ad, isActive) ==
  IF ad = Null \/ ~isActive
    THEN prev
    ELSE LET newData == Append(prev, NewDataPoint(ad[1]))
         IN  IF Len(newData) > TimeSeriesLength
               THEN SubSeq(newData, Len(newData) - TimeSeriesLength + 1,
                           Len(newData))
               ELSE newData

\* Mutant of ProcessSpectrum: the intensity is not limited to 255.
ProcessSpectrumUnclamped(ad) ==
  [i \in 1..SpectrumBins |->
     LET sampleIndex == ((i - 1) * Len(ad)) \div SpectrumBins
     IN  IF sampleIndex < Len(ad)
           THEN Max(0, Abs(ad[sampleIndex + 1]) \div 10)
           ELSE 0]

\* SpectrographVisualizer.processSpectrum: bin i (from 0) takes the sample at
\* floor(i / 256 * length); its intensity is min(255, max(0, |v| * 1000))
\* stored in a Uint8Array, which truncates.  |v| * 1000 is |a| / 10 for the
\* fixed-point a.
ProcessSpectrum(ad) ==
  [i \in 1..SpectrumBins |->
     LET sampleIndex == ((i - 1) * Len(ad)) \div SpectrumBins
     IN  IF sampleIndex < Len(ad)
           THEN Min(255, Max(0, Abs(ad[sampleIndex + 1]) \div 10))
           ELSE 0]

\* Mutant of PushSpectrum: the history is never cut.
PushSpectrumUncut(prev, spectrumBuffer) == <<spectrumBuffer>> \o prev

\* Mutant of PushSpectrum: the history is kept oldest first.
PushSpectrumOldestFirst(prev, spectrumBuffer) ==
  LET newHistory == Append(prev, spectrumBuffer)
  IN  IF Len(newHistory) > HistoryLength
        THEN SubSeq(newHistory, Len(newHistory) - HistoryLength + 1,
                    Len(newHistory))
        ELSE newHistory

\* setSpectrumHistory(prev => ...): newest first, cut to historyLengthRef.
PushSpectrum(prev, spectrumBuffer) ==
  LET newHistory == <<spectrumBuffer>> \o prev
  IN  IF Len(newHistory) > HistoryLength
        THEN SubSeq(newHistory, 1, HistoryLength)
        ELSE newHistory

\* SpectrographVisualizer: the processSpectrum effect, for the props
\* (ad, isActive).
SpectrographAccumulate(prev, ad, isActive) ==
  IF ad = Null \/ ~isActive
    THEN prev
    ELSE PushSpectrum(prev, ProcessSpectrum(ad[1]))

\* Whether the content of tab comp is mounted while tab is the selected one.
Mounted(tab, comp) == ~unmountInactive \/ tab = comp

\* timeSeriesData after a commit in which audioData becomes ad (a new object
\* iff adChanged) and the selected tab becomes tab.  The effect runs on mount
\* and whenever audioData or isActive changed; unmounting drops the state.
TimeSeriesAfter(ad, adChanged, tab) ==
  LET wasMounted == Mounted(visualizationType, "timeSeries")
      isMounted == Mounted(tab, "timeSeries")
      wasActive == visualizationType = "timeSeries"
      isActive == tab = "timeSeries"
      base == IF wasMounted /\ isMounted THEN timeSeriesData ELSE << >>
      runs == isMounted /\ (~wasMounted \/ adChanged \/ wasActive # isActive)
  IN  IF runs THEN TimeSeriesAccumulate(base, ad, isActive) ELSE base

\* spectrumHistory after the same commit.
SpectrographAfter(ad, adChanged, tab) ==
  LET wasMounted == Mounted(visualizationType, "spectrograph")
      isMounted == Mounted(tab, "spectrograph")
      wasActive == visualizationType = "spectrograph"
      isActive == tab = "spectrograph"
      base == IF wasMounted /\ isMounted THEN spectrumHistory ELSE << >>
      runs == isMounted /\ (~wasMounted \/ adChanged \/ wasActive # isActive)
  IN  IF runs THEN SpectrographAccumulate(base, ad, isActive) ELSE base

\* WaveformVisualizer and SpectrumVisualizer, the draw effect: the placeholder
\* when audioData is null, the data otherwise.
WaveformDraw(ad) == IF ad = Null THEN <<"placeholder">> ELSE <<"data">>

SpectrumDraw(ad) == IF ad = Null THEN <<"placeholder">> ELSE <<"data">>

\* Mutant of TimeSeriesDraw: the placeholder only for an empty history.
TimeSeriesDrawEmptyOnly(data) ==
  IF Len(data) = 0 THEN <<"placeholder">> ELSE <<"data">>

\* TimeSeriesVisualizer, the draw effect: the placeholder text while there
\* are fewer than 2 points, the line otherwise.
TimeSeriesDraw(data) ==
  IF Len(data) < 2 THEN <<"placeholder">> ELSE <<"data">>

\* SpectrographVisualizer.drawSpectrograph for one pane.
DrawSpectrograph(history) ==
  IF Len(history) = 0 THEN "placeholder" ELSE "data"

\* SpectrographVisualizer, the draw effect: the short-term pane shows
\* spectrumHistory.slice(0, 60), the long-term pane all of it.
SpectrographDraw(history) ==
  << DrawSpectrograph(SubSeq(history, 1, Min(60, Len(history)))),
     DrawSpectrograph(history) >>

\* Mutant of IntensityColour: each band rises by 7 per step instead of 6.
IntensityColourSteep(intensity) ==
  IF intensity < 40 THEN <<0, 0, intensity * 7>>
  ELSE IF intensity < 80 THEN <<(intensity - 40) * 7, 0, 255>>
  ELSE IF intensity < 120 THEN <<255, 0, 255 - (intensity - 80) * 7>>
  ELSE IF intensity < 160 THEN <<255, (intensity - 120) * 7, 0>>
  ELSE IF intensity < 200 THEN <<255, 255, (intensity - 160) * 7>>
  ELSE <<255, 255, 255>>

\* drawSpectrograph: the colour <<r, g, b>> of a cell of the given intensity,
\* from black over blue, purple, red and yellow to white.
IntensityColour(intensity) ==
  IF intensity < 40 THEN <<0, 0, intensity * 6>>
  ELSE IF intensity < 80 THEN <<(intensity - 40) * 6, 0, 255>>
  ELSE IF intensity < 120 THEN <<255, 0, 255 - (intensity - 80) * 6>>
  ELSE IF intensity < 160 THEN <<255, (intensity - 120) * 6, 0>>
  ELSE IF intensity < 200 THEN <<255, 255, (intensity - 160) * 6>>
  ELSE <<255, 255, 255>>

\* drawSpectrograph over the whole history (the long-term pane; the short-term
\* pane paints a part of it): the cells painted, as the intensities drawn
\* with the fillStyle of each.
SpectrographCells(history) ==
  LET spectra == {history[k] : k \in DOMAIN history}
      intensities == UNION { {spectrum[freqIndex] : freqIndex \in DOMAIN spectrum} :
                             spectrum \in spectra }
  IN  { [intensity |-> intensity, fillStyle |-> IntensityColour(intensity)] :
        intensity \in intensities }

\* Whether an effect of component comp with the dependencies (data, isActive)
\* runs in a commit that selects tab, depChanged telling whether the data
\* changed: on mount and whenever a dependency changed.
EffectRuns(comp, depChanged, tab) ==
  /\ Mounted(tab, comp)
  /\ \/ ~Mounted(visualizationType, comp)
     \/ depChanged
     \/ (visualizationType = comp) # (tab = comp)

\* Whether the accumulate effect of component comp sets a new history in that
\* commit.
HistoryChanged(comp, ad, adChanged, tab) ==
  EffectRuns(comp, adChanged, tab) /\ ad # Null /\ tab = comp

\* The canvas of component comp after a commit that selects tab: drawn is
\* what its draw effect paints from the new props and state, depChanged
\* whether the data the effect depends on changed.  The effect returns early
\* while the component is not active; unmounting drops the canvas.
CanvasAfter(comp, drawn, depChanged, tab) ==
  IF ~Mounted(tab, comp) THEN Blank
  ELSE IF EffectRuns(comp, depChanged, tab) /\ tab = comp THEN drawn
  ELSE IF Mounted(visualizationType, comp) THEN canvas[comp]
  ELSE Blank

\* The cells on the spectrograph's canvas after a commit that selects tab and
\* leaves history as its spectrumHistory: repainted when its draw effect runs
\* while it is active, dropped with the canvas when it unmounts.
FillStylesAfter(ad, adChanged, tab, history) ==
  IF ~Mounted(tab, "spectrograph") THEN {}
  ELSE IF /\ EffectRuns("spectrograph",
                        HistoryChanged("spectrograph", ad, adChanged, tab),
                        tab)
          /\ tab = "spectrograph"
    THEN SpectrographCells(history)
  ELSE IF Mounted(visualizationType, "spectrograph") THEN fillStyles
  ELSE {}

\* The children's share of a commit: the accumulate effects, then the draw
\* effects on the state those leave.
Children(ad, adChanged, tab) ==
  /\ timeSeriesData' = TimeSeriesAfter(ad, adChanged, tab)
  /\ spectrumHistory' = SpectrographAfter(ad, adChanged, tab)
  /\ fillStyles' = FillStylesAfter(ad, adChanged, tab, spectrumHistory')
  /\ canvas' =
       [comp \in TabValues |->
          CASE comp = "waveform" ->
                 CanvasAfter(comp, WaveformDraw(ad), adChanged, tab)
            [] comp = "spectrum" ->
                 CanvasAfter(comp, SpectrumDraw(ad), adChanged, tab)
            [] comp = "spectrograph" ->
                 CanvasAfter(comp,
                             SpectrographDraw(spectrumHistory'),
                             HistoryChanged(comp, ad, adChanged, tab), tab)
            [] comp = "timeSeries" ->
                 CanvasAfter(comp,
                             TimeSeriesDraw(timeSeriesData'),
                             HistoryChanged(comp, ad, adChanged, tab), tab)]

\* Mutant of SetAt: the buffer is written one place too far.
SetAtShifted(mergedArray, array, offset) ==
  [i \in 1..Len(mergedArray) |->
     IF i > offset + 1 /\ i <= offset + 1 + Len(array)
       THEN array[i - offset - 1]
       ELSE mergedArray[i]]

\* handleSaveRecording: mergedArray.set(array, offset) on a sequence.
SetAt(mergedArray, array, offset) ==
  [i \in 1..Len(mergedArray) |->
     IF i > offset /\ i <= offset + Len(array)
       THEN array[i - offset]
       ELSE mergedArray[i]]

\* Mutant of MergeFrom: the offset advances by one per buffer.
RECURSIVE MergeFromByOne(_, _, _, _)
MergeFromByOne(arrays, k, mergedArray, offset) ==
  IF k > Len(arrays)
    THEN [mergedArray |-> mergedArray, offset |-> offset]
    ELSE MergeFromByOne(arrays, k + 1,
                        [i \in 1..Len(mergedArray) |->
                           IF i > offset /\ i <= offset + Len(arrays[k])
                             THEN arrays[k][i - offset]
                             ELSE mergedArray[i]],
                        offset + 1)

\* handleSaveRecording: the forEach over recordedData, from buffer k on.
RECURSIVE MergeFrom(_, _, _, _)
MergeFrom(arrays, k, mergedArray, offset) ==
  IF k > Len(arrays)
    THEN [mergedArray |-> mergedArray, offset |-> offset]
    ELSE MergeFrom(arrays, k + 1, SetAt(mergedArray, arrays[k], offset),
                   offset + Len(arrays[k]))

\* handleSaveRecording: a zero-filled Float32Array of the summed length, then
\* every buffer written at the running offset.
MergeRecording(arrays) ==
  MergeFrom(arrays, 1, [i \in 1..SumLengths(arrays) |-> 0], 0)

(***************************************************************************)
(* Callbacks held by requestAnimationFrame.  A callback is a closure: it   *)
(* carries the values of the render that created it.                       *)
(***************************************************************************)
\* updateData, created by a run of the capture effect under gain g; its
\* isRecording and analyser are those of that render, true and installed.
UpdateDataCallback(g) ==
  [kind |-> "updateData", isRecording |-> TRUE, analyser |-> TRUE, gain |-> g,
   playbackIndex |-> 0, recordedData |-> << >>]

\* playNextFrame, created by handlePlayback.
PlayNextFrameCallback(idx, arrays) ==
  [kind |-> "playNextFrame", isRecording |-> FALSE, analyser |-> FALSE,
   gain |-> 0, playbackIndex |-> idx, recordedData |-> arrays]

RECURSIVE WithoutPlayback(_)
WithoutPlayback(q) ==
  IF q = << >> THEN << >>
  ELSE IF Head(q).kind = "playNextFrame" THEN WithoutPlayback(Tail(q))
  ELSE <<Head(q)>> \o WithoutPlayback(Tail(q))

NumUpdateData(q) == Cardinality({i \in DOMAIN q : q[i].kind = "updateData"})

NumPlayNextFrame(q) ==
  Cardinality({i \in DOMAIN q : q[i].kind = "playNextFrame"})


(***************************************************************************)
(* Effects of AudioVisualizer.                                             *)
(***************************************************************************)
\* Mutant of AcquisitionEffect: the test for an existing context is missing.
AcquisitionEffectUnguarded(rec) ==
  IF rec
    THEN /\ audioContext' = TRUE
         /\ contextsCreated' = contextsCreated + 1
         /\ stream' = "pending"
         /\ streamRequests' = streamRequests + 1
    ELSE UNCHANGED <<audioContext, stream, contextsCreated, streamRequests>>

\* The acquisition effect (deps isRecording, audioContext), run with
\* isRecording = rec: the first recording creates the AudioContext and asks
\* for the input stream.
AcquisitionEffect(rec) ==
  IF rec /\ ~audioContext
    THEN /\ audioContext' = TRUE
         /\ contextsCreated' = contextsCreated + 1
         /\ stream' = "pending"
         /\ streamRequests' = streamRequests + 1
    ELSE UNCHANGED <<audioContext, stream, contextsCreated, streamRequests>>

\* The capture effect (deps analyser, isRecording, gain), run with the values
\* (an, rec, g) of the new render, recordedData being base before it, ref the
\* identity of audioData before it and tab the selected tab.  It calls updateData() once itself: that call reads the
\* analyser, sets audioData, appends to recordedData and asks for the next
\* frame.  The children's effects then see the new audioData.
CaptureEffect(an, rec, g, base, ref, tab) ==
  IF an /\ rec
    THEN /\ audioData' = <<Amplify(timeDomainData, g)>>
         /\ audioDataRef' = FreshRef
         /\ recordedData' = Append(base, Amplify(timeDomainData, g))
         /\ rafQueue' = Append(rafQueue, UpdateDataCallback(g))
         /\ Children(<<Amplify(timeDomainData, g)>>, TRUE, tab)
    ELSE /\ recordedData' = base
         /\ audioDataRef' = ref
         /\ UNCHANGED <<audioData, rafQueue>>
         /\ Children(audioData, FALSE, tab)

(***************************************************************************)
(* Events.                                                                 *)
(***************************************************************************)
\* Mutant of HandleStartRecording: setRecordedData([]) is missing.
HandleStartRecordingKeeping ==
  /\ ~isRecording /\ ~isPlaying
  /\ isRecording' = TRUE
  /\ AcquisitionEffect(TRUE)
  /\ CaptureEffect(analyser, TRUE, gain, recordedData, audioDataRef,
                   visualizationType)
  /\ toast' = "Recording Started"
  /\ lastEvent' = "startRecording"
  /\ saved' = Null
  /\ UNCHANGED <<analyser, visualizationType, gain, isPlaying, playbackIndex,
                 playbackRef, timeDomainData, unmountInactive, displayVars>>

\* Click on Start Recording (rendered while neither recording nor playing).
HandleStartRecording ==
  /\ ~isRecording /\ ~isPlaying
  /\ isRecording' = TRUE
  /\ AcquisitionEffect(TRUE)
  /\ CaptureEffect(analyser, TRUE, gain, << >>, FreshRef, visualizationType)
  /\ toast' = "Recording Started"
  /\ lastEvent' = "startRecording"
  /\ saved' = Null
  /\ UNCHANGED <<analyser, visualizationType, gain, isPlaying, playbackIndex,
                 playbackRef, timeDomainData, unmountInactive, displayVars>>

\* Mutant of GetUserMediaResolve: the capture effect does not run on the new
\* analyser.
GetUserMediaResolveNoCapture ==
  /\ stream = "pending"
  /\ stream' = "open"
  /\ analyser' = TRUE
  /\ CaptureEffect(FALSE, isRecording, gain, recordedData, audioDataRef,
                   visualizationType)
  /\ toast' = ""
  /\ lastEvent' = "getUserMediaResolved"
  /\ saved' = Null
  /\ UNCHANGED <<isRecording, audioContext, visualizationType, gain,
                 isPlaying, playbackIndex, playbackRef, timeDomainData,
                 unmountInactive, displayVars, resourceVars>>

\* The getUserMedia promise resolves: the analyser is installed.
GetUserMediaResolve ==
  /\ stream = "pending"
  /\ stream' = "open"
  /\ analyser' = TRUE
  /\ CaptureEffect(TRUE, isRecording, gain, recordedData, audioDataRef,
                   visualizationType)
  /\ toast' = ""
  /\ lastEvent' = "getUserMediaResolved"
  /\ saved' = Null
  /\ UNCHANGED <<isRecording, audioContext, visualizationType, gain,
                 isPlaying, playbackIndex, playbackRef, timeDomainData,
                 unmountInactive, displayVars, resourceVars>>

\* Mutant of GetUserMediaReject: the error is logged, isRecording is left.
GetUserMediaRejectLogOnly ==
  /\ stream = "pending"
  /\ stream' = "failed"
  /\ toast' = ""
  /\ lastEvent' = "getUserMediaRejected"
  /\ saved' = Null
  /\ UNCHANGED <<isRecording, audioData, audioDataRef, audioContext, analyser,
                 visualizationType, gain, recordedData, isPlaying,
                 playbackIndex, playbackRef, timeDomainData, rafQueue,
                 timeSeriesData, spectrumHistory, canvas, fillStyles, unmountInactive, displayVars, resourceVars>>

\* The getUserMedia promise rejects: console.error, setIsRecording(false).
GetUserMediaReject ==
  /\ stream = "pending"
  /\ stream' = "failed"
  /\ isRecording' = FALSE
  /\ CaptureEffect(analyser, FALSE, gain, recordedData, audioDataRef,
                   visualizationType)
  /\ toast' = ""
  /\ lastEvent' = "getUserMediaRejected"
  /\ saved' = Null
  /\ UNCHANGED <<audioContext, analyser, visualizationType, gain, isPlaying,
                 playbackIndex, playbackRef, timeDomainData, unmountInactive, displayVars, resourceVars>>

\* Mutant of HandleStopRecording: the input stream is closed as well.
HandleStopRecordingClosing ==
  /\ isRecording
  /\ isRecording' = FALSE
  /\ stream' = IF stream = "open" THEN "closed" ELSE stream
  /\ toast' = "Recording Stopped"
  /\ lastEvent' = "stopRecording"
  /\ saved' = Null
  /\ UNCHANGED <<audioData, audioDataRef, audioContext, analyser,
                 visualizationType, gain, recordedData, isPlaying,
                 playbackIndex, playbackRef, timeDomainData, rafQueue,
                 timeSeriesData, spectrumHistory, canvas, fillStyles, unmountInactive, displayVars, resourceVars>>

\* Click on Stop while recording.
HandleStopRecording ==
  /\ isRecording
  /\ isRecording' = FALSE
  /\ AcquisitionEffect(FALSE)
  /\ CaptureEffect(analyser, FALSE, gain, recordedData, audioDataRef,
                   visualizationType)
  /\ toast' = "Recording Stopped"
  /\ lastEvent' = "stopRecording"
  /\ saved' = Null
  /\ UNCHANGED <<analyser, visualizationType, gain, isPlaying, playbackIndex,
                 playbackRef, timeDomainData, unmountInactive, displayVars>>

\* The gain slider moves to g.
GainChange(g) ==
  /\ g # gain
  /\ gain' = g
  /\ CaptureEffect(analyser, isRecording, g, recordedData, audioDataRef,
                   visualizationType)
  /\ toast' = ""
  /\ lastEvent' = "gainChange"
  /\ saved' = Null
  /\ UNCHANGED <<isRecording, audioContext, analyser, visualizationType,
                 isPlaying, playbackIndex, playbackRef, stream,
                 timeDomainData, unmountInactive, displayVars, resourceVars>>

\* The hardware delivers new audio: the analyser's time-domain data changes.
\* No handler of the page runs.
HardwareInput(b) ==
  /\ stream = "open"
  /\ b # timeDomainData
  /\ timeDomainData' = b
  /\ UNCHANGED <<isRecording, audioData, audioDataRef, audioContext, analyser,
                 visualizationType, gain, recordedData, isPlaying,
                 playbackIndex, playbackRef, stream, rafQueue, timeSeriesData,
                 spectrumHistory, canvas, fillStyles, unmountInactive, displayVars, resourceVars,
                 lastEvent, toast, saved>>

\* A tab is selected: Tabs onValueChange = setVisualizationType.
SelectTab(t) ==
  /\ t # visualizationType
  /\ visualizationType' = t
  /\ Children(audioData, FALSE, t)
  /\ toast' = ""
  /\ lastEvent' = "selectTab"
  /\ saved' = Null
  /\ UNCHANGED <<isRecording, audioData, audioDataRef, audioContext, analyser,
                 gain, recordedData, isPlaying, playbackIndex, playbackRef,
                 stream, timeDomainData, rafQueue, unmountInactive, displayVars, resourceVars>>

\* Mutant of HandleSaveRecording: the guard on an empty recording is missing.
HandleSaveRecordingUnguarded ==
  /\ saved' = <<MergeRecording(recordedData)>>
  /\ toast' = "Recording Saved"
  /\ lastEvent' = "saveRecording"
  /\ UNCHANGED <<isRecording, audioData, audioDataRef, audioContext, analyser,
                 visualizationType, gain, recordedData, isPlaying,
                 playbackIndex, playbackRef, stream, timeDomainData, rafQueue,
                 timeSeriesData, spectrumHistory, canvas, fillStyles, unmountInactive, displayVars, resourceVars>>

\* handleSaveRecording: nothing happens on an empty recording (the Save button
\* is disabled then; the handler has its own guard); otherwise the merged
\* samples are offered for download and a toast is raised.
HandleSaveRecording ==
  /\ IF Len(recordedData) = 0
       THEN /\ saved' = Null
            /\ toast' = ""
       ELSE /\ saved' = <<MergeRecording(recordedData)>>
            /\ toast' = "Recording Saved"
  /\ lastEvent' = "saveRecording"
  /\ UNCHANGED <<isRecording, audioData, audioDataRef, audioContext, analyser,
                 visualizationType, gain, recordedData, isPlaying,
                 playbackIndex, playbackRef, stream, timeDomainData, rafQueue,
                 timeSeriesData, spectrumHistory, canvas, fillStyles, unmountInactive, displayVars, resourceVars>>

\* Mutant of HandlePlayback: the guard on an empty recording is missing.
HandlePlaybackUnguarded ==
  /\ ~isPlaying
  /\ isPlaying' = TRUE
  /\ playbackIndex' = 0
  /\ rafQueue' = Append(rafQueue,
       PlayNextFrameCallback(playbackIndex, recordedData))
  /\ playbackRef' = 1
  /\ toast' = "Playback Started"
  /\ lastEvent' = "playback"
  /\ saved' = Null
  /\ UNCHANGED <<isRecording, audioData, audioDataRef, audioContext, analyser,
                 visualizationType, gain, recordedData, stream,
                 timeDomainData, timeSeriesData, spectrumHistory, canvas, fillStyles,
                 unmountInactive, displayVars, resourceVars>>

\* handlePlayback (the button reads Play Recording while not playing).
HandlePlayback ==
  /\ ~isPlaying
  /\ IF Len(recordedData) = 0
       THEN /\ toast' = ""
            /\ UNCHANGED <<isPlaying, playbackIndex, playbackRef, rafQueue>>
       ELSE /\ isPlaying' = TRUE
            /\ playbackIndex' = 0
            /\ rafQueue' = Append(rafQueue,
                 PlayNextFrameCallback(playbackIndex, recordedData))
            /\ playbackRef' = 1
            /\ toast' = "Playback Started"
  /\ lastEvent' = "playback"
  /\ saved' = Null
  /\ UNCHANGED <<isRecording, audioData, audioDataRef, audioContext, analyser,
                 visualizationType, gain, recordedData, stream,
                 timeDomainData, timeSeriesData, spectrumHistory, canvas, fillStyles,
                 unmountInactive, displayVars, resourceVars>>

\* Mutant of HandleStopPlayback: the pending frame is not cancelled.
HandleStopPlaybackNoCancel ==
  /\ isPlaying
  /\ playbackRef' = 0
  /\ isPlaying' = FALSE
  /\ playbackIndex' = 0
  /\ toast' = "Playback Stopped"
  /\ lastEvent' = "stopPlayback"
  /\ saved' = Null
  /\ UNCHANGED <<isRecording, audioData, audioDataRef, audioContext, analyser,
                 visualizationType, gain, recordedData, stream,
                 timeDomainData, rafQueue, timeSeriesData, spectrumHistory,
                 canvas, fillStyles, unmountInactive, displayVars, resourceVars>>

\* handleStopPlayback (Stop Playback, or Stop while playing and not recording).
HandleStopPlayback ==
  /\ isPlaying
  /\ IF playbackRef # 0
       THEN /\ rafQueue' = WithoutPlayback(rafQueue)
            /\ playbackRef' = 0
       ELSE UNCHANGED <<rafQueue, playbackRef>>
  /\ isPlaying' = FALSE
  /\ playbackIndex' = 0
  /\ toast' = "Playback Stopped"
  /\ lastEvent' = "stopPlayback"
  /\ saved' = Null
  /\ UNCHANGED <<isRecording, audioData, audioDataRef, audioContext, analyser,
                 visualizationType, gain, recordedData, stream,
                 timeDomainData, timeSeriesData, spectrumHistory, canvas, fillStyles,
                 unmountInactive, displayVars, resourceVars>>

\* Click on the Settings button: setShowSettings(!showSettings).  The panel
\* mounts with its controls at their default values and loses them when it
\* unmounts.
ToggleSettings ==
  /\ showSettings' = ~showSettings
  /\ settingsControl' = "default"
  /\ toast' = ""
  /\ lastEvent' = "toggleSettings"
  /\ saved' = Null
  /\ UNCHANGED <<isRecording, audioData, audioDataRef, audioContext, analyser,
                 visualizationType, gain, recordedData, isPlaying,
                 playbackIndex, playbackRef, stream, timeDomainData, rafQueue,
                 timeSeriesData, spectrumHistory, canvas, fillStyles, timeScale,
                 unmountInactive, resourceVars>>

\* A control of the open SettingsPanel is set to v: the controls are
\* uncontrolled (defaultValue only) and no handler of the page is attached.
SettingsControlChange(v) ==
  /\ showSettings
  /\ v # settingsControl
  /\ settingsControl' = v
  /\ toast' = ""
  /\ lastEvent' = "settingsControlChange"
  /\ saved' = Null
  /\ UNCHANGED <<isRecording, audioData, audioDataRef, audioContext, analyser,
                 visualizationType, gain, recordedData, isPlaying,
                 playbackIndex, playbackRef, stream, timeDomainData, rafQueue,
                 timeSeriesData, spectrumHistory, canvas, fillStyles, timeScale,
                 showSettings, unmountInactive, resourceVars>>

\* Mutant of TimeScaleChange: the slider is wired to setGain.
TimeScaleChangeSetsGain(ts) ==
  /\ ts # timeScale
  /\ timeScale' = ts
  /\ gain' = ts
  /\ toast' = ""
  /\ lastEvent' = "timeScaleChange"
  /\ saved' = Null
  /\ UNCHANGED <<isRecording, audioData, audioDataRef, audioContext, analyser,
                 visualizationType, recordedData, isPlaying,
                 playbackIndex, playbackRef, stream, timeDomainData, rafQueue,
                 timeSeriesData, spectrumHistory, canvas, fillStyles, showSettings,
                 settingsControl, unmountInactive, resourceVars>>

\* The time-scale slider moves to ts: setTimeScale(value[0]).  No component
\* and no effect reads timeScale.
TimeScaleChange(ts) ==
  /\ ts # timeScale
  /\ timeScale' = ts
  /\ toast' = ""
  /\ lastEvent' = "timeScaleChange"
  /\ saved' = Null
  /\ UNCHANGED <<isRecording, audioData, audioDataRef, audioContext, analyser,
                 visualizationType, gain, recordedData, isPlaying,
                 playbackIndex, playbackRef, stream, timeDomainData, rafQueue,
                 timeSeriesData, spectrumHistory, canvas, fillStyles, showSettings,
                 settingsControl, unmountInactive, resourceVars>>


(***************************************************************************)
(* One animation frame: every callback requestAnimationFrame holds runs,   *)
(* oldest first; the state updates they make are batched into one commit.  *)
(* st is the state as the callbacks' updates leave it, st.queue the         *)
(* callbacks asked for during the frame and st.fresh whether the last       *)
(* setAudioData was handed a new object.                                   *)
(***************************************************************************)
\* updateData, run from the frame queue as closure cb.
UpdateDataStep(cb, st) ==
  IF ~cb.isRecording \/ ~cb.analyser
    THEN st
    ELSE LET amplifiedData == Amplify(timeDomainData, cb.gain)
         IN  [st EXCEPT !.audioData = <<amplifiedData>>,
                        !.audioDataRef = FreshRef,
                        !.fresh = TRUE,
                        !.recordedData = Append(@, amplifiedData),
                        !.queue = Append(@, cb)]

\* playNextFrame, run from the frame queue as closure cb; its else branch is
\* handleStopPlayback, whose cancelAnimationFrame finds nothing pending.
PlayNextFrameStep(cb, st) ==
  IF cb.playbackIndex < Len(cb.recordedData)
    THEN [st EXCEPT !.audioData = <<cb.recordedData[cb.playbackIndex + 1]>>,
                    !.audioDataRef = cb.playbackIndex + 1,
                    !.fresh = FALSE,
                    !.playbackIndex = @ + 1,
                    !.playbackRef = 1,
                    !.queue = Append(@, cb)]
    ELSE [st EXCEPT !.playbackRef = 0,
                    !.isPlaying = FALSE,
                    !.playbackIndex = 0,
                    !.toast = "Playback Stopped"]

RECURSIVE RunFrame(_, _)
RunFrame(q, st) ==
  IF q = << >>
    THEN st
    ELSE RunFrame(Tail(q),
                  IF Head(q).kind = "updateData"
                    THEN UpdateDataStep(Head(q), st)
                    ELSE PlayNextFrameStep(Head(q), st))

AnimationFrame ==
  /\ rafQueue # << >>
  /\ LET st == RunFrame(rafQueue,
                 [audioData |-> audioData, audioDataRef |-> audioDataRef,
                  fresh |-> FALSE, recordedData |-> recordedData,
                  playbackIndex |-> playbackIndex,
                  playbackRef |-> playbackRef, isPlaying |-> isPlaying,
                  toast |-> "", queue |-> << >>])
     IN  /\ audioData' = st.audioData
         /\ audioDataRef' = st.audioDataRef
         /\ recordedData' = st.recordedData
         /\ playbackIndex' = st.playbackIndex
         /\ playbackRef' = st.playbackRef
         /\ isPlaying' = st.isPlaying
         /\ toast' = st.toast
         /\ rafQueue' = st.queue
         /\ Children(st.audioData,
                     st.fresh \/ st.audioDataRef # audioDataRef,
                     visualizationType)
  /\ lastEvent' = "animationFrame"
  /\ saved' = Null
  /\ UNCHANGED <<isRecording, audioContext, analyser, visualizationType, gain,
                 stream, timeDomainData, unmountInactive, displayVars, resourceVars>>

(***************************************************************************)
(* Specifications.                                                         *)
(***************************************************************************)
\* The bounds of a run: at most maxRec recorded buffers, maxHist history
\* entries.
Bounded(maxRec, maxHist) ==
  /\ Len(recordedData) <= maxRec
  /\ Len(rafQueue) <= MaxLoops
  /\ playbackIndex <= MaxPlaybackIndex
  /\ Len(timeSeriesData) <= maxHist
  /\ Len(spectrumHistory) <= maxHist

InBounds == Bounded(MaxRec, MaxHist)

Next ==
  \/ HandleStartRecording /\ InBounds'
  \/ GetUserMediaResolve /\ InBounds'
  \/ GetUserMediaReject /\ InBounds'
  \/ HandleStopRecording /\ InBounds'
  \/ \E g \in GainValues : GainChange(g) /\ InBounds'
  \/ \E b \in InputBuffers \cup {Silence} : HardwareInput(b) /\ InBounds'
  \/ \E t \in TabValues : SelectTab(t) /\ InBounds'
  \/ HandleSaveRecording /\ InBounds'
  \/ HandlePlayback /\ InBounds'
  \/ HandleStopPlayback /\ InBounds'
  \/ AnimationFrame /\ InBounds'

Spec == Init /\ [][Next]_vars

\* Recording under the browser's scheduling: a pending getUserMedia promise
\* is settled (resolved or rejected) and a requested animation frame is run;
\* the user's clicks on Start and Stop are under no obligation.
NextFair ==
  \/ HandleStartRecording /\ InBounds'
  \/ GetUserMediaResolve /\ InBounds'
  \/ GetUserMediaReject /\ InBounds'
  \/ HandleStopRecording /\ InBounds'
  \/ \E b \in InputBuffers \cup {Silence} : HardwareInput(b) /\ InBounds'
  \/ \E g \in GainValues : GainChange(g) /\ InBounds'
  \/ AnimationFrame /\ InBounds'

SpecFair ==
  /\ Init
  /\ [][NextFair]_vars
  /\ WF_vars((GetUserMediaResolve \/ GetUserMediaReject) /\ InBounds')
  /\ WF_vars(AnimationFrame /\ InBounds')


\* The page with its display-only controls in use: recording, playback and
\* tab selection go on while the settings panel is opened, its controls are
\* changed and the time-scale slider is moved.
NextDisplay ==
  \/ HandleStartRecording /\ InBounds'
  \/ GetUserMediaResolve /\ InBounds'
  \/ HandleStopRecording /\ InBounds'
  \/ \E t \in TabValues : SelectTab(t) /\ InBounds'
  \/ HandlePlayback /\ InBounds'
  \/ AnimationFrame /\ InBounds'
  \/ ToggleSettings /\ InBounds'
  \/ \E v \in SettingsValues : SettingsControlChange(v) /\ InBounds'
  \/ \E ts \in TimeScaleValues : TimeScaleChange(ts) /\ InBounds'

SpecDisplay == Init /\ [][NextDisplay]_vars


\* A long recording watched on one tab: the tab is chosen before the first
\* buffer arrives, then the capture loop runs frame after frame, on a silent
\* input until the spectrum history is about to fill up and on any input from
\* then on.
InBoundsLong == Bounded(MaxLongRec, MaxLongRec)

NextLong ==
  \/ HandleStartRecording /\ InBoundsLong'
  \/ GetUserMediaResolve /\ InBoundsLong'
  \/ recordedData = << >> /\ \E t \in TabValues : SelectTab(t) /\ InBoundsLong'
  \/ /\ Len(recordedData) >= HistoryLength - 2
     /\ \E b \in InputBuffers \cup {Silence} : HardwareInput(b) /\ InBoundsLong'
  \/ AnimationFrame /\ InBoundsLong'

SpecLong == Init /\ [][NextLong]_vars


\* A long recording watched on the time-series tab: as the long run above,
\* with the input varying once the chart is about to fill up.
InBoundsSeries == Bounded(MaxLongSeries, MaxLongSeries)

NextSeries ==
  \/ HandleStartRecording /\ InBoundsSeries'
  \/ GetUserMediaResolve /\ InBoundsSeries'
  \/ recordedData = << >> /\ SelectTab("timeSeries") /\ InBoundsSeries'
  \/ /\ Len(recordedData) >= TimeSeriesLength - 2
     /\ \E b \in InputBuffers \cup {Silence} : HardwareInput(b) /\ InBoundsSeries'
  \/ AnimationFrame /\ InBoundsSeries'

SpecSeries == Init /\ [][NextSeries]_vars


\* The spectrograph on a steady input of any level: both samples of the
\* buffer the analyser delivers are s / 1000, for every s up to MaxRampSample,
\* so that at the initial gain the cells take every intensity from 0 to 255.
RampBuffers == { [i \in 1..BufLen |-> s] : s \in 0..MaxRampSample }

InitRamp == \E b \in RampBuffers : InitFrom(b, TRUE)

NextRamp ==
  \/ HandleStartRecording /\ InBounds'
  \/ GetUserMediaResolve /\ InBounds'
  \/ \E t \in TabValues : SelectTab(t) /\ InBounds'
  \/ AnimationFrame /\ InBounds'

SpecRamp == InitRamp /\ [][NextRamp]_vars


\* The visual components under either behaviour of TabsContent: the content
\* of an inactive tab unmounted, or kept mounted with isActive false.
InitTabs == \E unmount \in BOOLEAN : InitFrom(Silence, unmount)

NextTabs ==
  \/ HandleStartRecording /\ InBounds'
  \/ GetUserMediaResolve /\ InBounds'
  \/ \E b \in InputBuffers \cup {Silence} : HardwareInput(b) /\ InBounds'
  \/ \E t \in TabValues : SelectTab(t) /\ InBounds'
  \/ AnimationFrame /\ InBounds'

SpecTabs == InitTabs /\ [][NextTabs]_vars


(***************************************************************************)
(* Claims.                                                                 *)
(***************************************************************************)
\* C1: after Stop Recording the capture loop has stopped: while the component
\* is not recording (from a state with isRecording false to another one) no
\* step appends to recordedData or changes it.
C1_StopEndsCapture ==
  [][(~isRecording /\ ~isRecording') => recordedData' = recordedData]_vars

\* The (buffer, position) pairs of a recording: one per recorded sample.
SamplePositions(arrays) ==
  UNION { { <<k, j>> : j \in DOMAIN arrays[k] } : k \in DOMAIN arrays }

\* C2: the flat sequence Save Recording builds from a non-empty recording has
\* exactly as many samples as the recording holds, and the final write offset
\* equals that number.
C2_SavedSampleCount ==
  saved # Null =>
    /\ Len(saved[1].mergedArray) = Cardinality(SamplePositions(recordedData))
    /\ saved[1].offset = Cardinality(SamplePositions(recordedData))

\* C2 witness: a recording of several buffers has been saved.
C2_Witness ==
  /\ lastEvent = "saveRecording"
  /\ saved # Null
  /\ Len(recordedData) >= 2

\* C3: Save Recording concatenates the buffers in recording order without gap
\* or overlap (sample j of buffer k lands at the summed length of the buffers
\* before k, plus j), and leaves recordedData unchanged.
C3_SavedInOrder ==
  /\ [](saved # Null =>
          \A k \in DOMAIN recordedData :
            \A j \in DOMAIN recordedData[k] :
              saved[1].mergedArray[
                  Cardinality(SamplePositions(SubSeq(recordedData, 1, k - 1)))
                    + j]
                = recordedData[k][j])
  /\ [][HandleSaveRecording => recordedData' = recordedData]_vars

\* C3 witness: a saved recording whose first two buffers differ, so that their
\* order shows in the file.
C3_Witness ==
  /\ lastEvent = "saveRecording"
  /\ saved # Null
  /\ Len(recordedData) >= 2
  /\ recordedData[1] # recordedData[2]

\* C4: the spectrum history never holds more than 300 entries.
C4_HistoryCapped == Len(spectrumHistory) <= 300

\* C4 witness: more than 300 buffers have arrived with the spectrograph
\* active, and the history is full.
C4_Witness ==
  /\ visualizationType = "spectrograph"
  /\ Len(recordedData) > 300
  /\ Len(spectrumHistory) = 300

\* C5: a change of visualizationType leaves recordedData, the time-series
\* history and the spectrum history as they were.
C5_TabSwitchKeepsData ==
  [][(visualizationType' # visualizationType) =>
       /\ recordedData' = recordedData
       /\ timeSeriesData' = timeSeriesData
       /\ spectrumHistory' = spectrumHistory]_vars

\* C6: Save Recording with no recorded buffer offers no download, raises no
\* toast and changes no state of the component.
C6_EmptySaveNoOp ==
  [][(HandleSaveRecording /\ Len(recordedData) = 0) =>
       /\ saved' = Null
       /\ toast' = ""
       /\ UNCHANGED componentState]_vars

\* C6 witness: handleSaveRecording has run on an empty recording.
C6_Witness ==
  /\ lastEvent = "saveRecording"
  /\ Len(recordedData) = 0

\* C7: when getUserMedia rejects, isRecording becomes false and no analyser
\* is installed; and once the request has failed there is no analyser, no
\* capture callback and no recorded buffer.
C7_RejectResetsRecording ==
  /\ [][GetUserMediaReject =>
          /\ isRecording' = FALSE
          /\ analyser' = FALSE
          /\ recordedData' = recordedData]_vars
  /\ [](stream = "failed" =>
          /\ ~analyser
          /\ recordedData = << >>
          /\ NumUpdateData(rafQueue) = 0)

\* C7 witness: the request has just been rejected.
C7_Witness ==
  /\ lastEvent = "getUserMediaRejected"
  /\ stream = "failed"
  /\ ~isRecording

\* C8: at most one updateData callback is pending at any time.
C8_SingleProducer == NumUpdateData(rafQueue) <= 1

\* C9: every buffer an animation frame appends to recordedData, and the
\* audioData it leaves when it appended one, is that frame's time-domain
\* input multiplied by the gain set at that frame.
C9_FrameUsesCurrentGain ==
  [][AnimationFrame =>
       /\ \A k \in (Len(recordedData) + 1)..Len(recordedData') :
            recordedData'[k] = Amplify(timeDomainData, gain)
       /\ (Len(recordedData') > Len(recordedData) /\ audioDataRef' = FreshRef)
            => audioData' = <<Amplify(timeDomainData, gain)>>]_vars

\* C10 as stated: while the component is not recording, the input stream is
\* not open.
C10_StreamClosedOnStop == ~isRecording => stream # "open"

\* C10 as amended: Stop Recording does not close the input stream; a stream
\* that has been opened stays open in every later state.
C10_StreamStaysOpen ==
  /\ [][HandleStopRecording => stream' = stream]_vars
  /\ [][stream = "open" => stream' = "open"]_vars

\* C10 witness: recording has been stopped and the stream is open.
C10_Witness ==
  /\ lastEvent = "stopRecording"
  /\ ~isRecording
  /\ stream = "open"

\* C11: a Start Recording issued while no input stream is open and none is
\* being opened (never asked for, or the last request failed) issues a new
\* request for the stream.
C11_StartRequestsStream ==
  [][(HandleStartRecording /\ stream \in {"none", "failed"})
       => stream' = "pending"]_vars

\* A tick the spectrograph accepts: it is and stays the active tab and the
\* step records a new buffer and leaves it as audioData.
SpectrographTick ==
  /\ visualizationType = "spectrograph"
  /\ visualizationType' = "spectrograph"
  /\ Len(recordedData') > Len(recordedData)
  /\ audioData' # Null
  /\ audioDataRef' = FreshRef

\* C12: the spectrum history is most-recent-first: after each accepted tick
\* the vector of the new buffer is at index 0, the earlier entries follow in
\* their previous order, and beyond 300 entries the last (oldest) one is
\* dropped.
C12_NewestFirst ==
  [][SpectrographTick =>
       /\ Len(spectrumHistory') =
            IF Len(spectrumHistory) < 300
              THEN Len(spectrumHistory) + 1
              ELSE 300
       /\ spectrumHistory'[1] = ProcessSpectrum(audioData'[1])
       /\ \A i \in 2..Len(spectrumHistory') :
            spectrumHistory'[i] = spectrumHistory[i - 1]]_vars

\* C12 witness: the history is full, a further buffer has been pushed and the
\* newest entry differs from the one before it.
C12_Witness ==
  /\ visualizationType = "spectrograph"
  /\ Len(recordedData) > 300
  /\ Len(spectrumHistory) = 300
  /\ spectrumHistory[1] # spectrumHistory[2]

\* C13: every sample of every recorded buffer, and of the buffer handed to the
\* visual components, lies in [-1, 1] (magnitude at most 10000 in the fixed
\* point of amplified samples).
C13_AmplitudesNormalized ==
  /\ \A k \in DOMAIN recordedData :
       \A j \in DOMAIN recordedData[k] : Abs(recordedData[k][j]) <= 10000
  /\ audioData # Null =>
       \A j \in DOMAIN audioData[1] : Abs(audioData[1][j]) <= 10000

\* C14: Play Recording with no recorded buffer leaves isPlaying false, leaves
\* playbackIndex and audioData as they were, schedules no frame callback and
\* raises no toast.
C14_EmptyPlaybackNoOp ==
  [][(HandlePlayback /\ Len(recordedData) = 0) =>
       /\ isPlaying' = FALSE
       /\ playbackIndex' = playbackIndex
       /\ audioData' = audioData
       /\ audioDataRef' = audioDataRef
       /\ rafQueue' = rafQueue
       /\ playbackRef' = playbackRef
       /\ toast' = ""]_vars

\* C14 witness: handlePlayback has run on an empty recording.
C14_Witness ==
  /\ lastEvent = "playback"
  /\ Len(recordedData) = 0
  /\ ~isPlaying

\* C15: every entry of the spectrum history has exactly 256 values in 0..255,
\* and the entry a step pushes has at bin i (0 <= i < 256) the magnitude of
\* sample floor(i * L / 256) of the step's buffer of length L, times 1000,
\* cut to a whole number and limited to 255 (|a| / 10 for the fixed-point a).
C15_SpectrumBins ==
  /\ [](\A k \in DOMAIN spectrumHistory :
          /\ Len(spectrumHistory[k]) = 256
          /\ \A i \in 1..256 : spectrumHistory[k][i] \in 0..255)
  /\ [][Len(spectrumHistory') > Len(spectrumHistory) =>
          \A i \in 0..255 :
            LET L == Len(audioData'[1])
                v == audioData'[1][(i * L) \div 256 + 1]
                scaled == (IF v < 0 THEN -v ELSE v) \div 10
            IN  spectrumHistory'[1][i + 1] =
                  IF scaled > 255 THEN 255 ELSE scaled]_vars

\* C15 witness: an entry with a bin at the limit and a bin below it.
C15_Witness ==
  /\ spectrumHistory # << >>
  /\ \E i \in 1..256 : spectrumHistory[1][i] = 255
  /\ \E i \in 1..256 : spectrumHistory[1][i] \in 1..254

\* C16: the canvas of the active visual component shows the placeholder
\* exactly when the component has no data yet: the waveform and the spectrum
\* when audioData is null, both spectrograph panes when the spectrum history
\* is empty, the time series when it holds fewer than 2 points; otherwise it
\* shows the data.
C16_PlaceholderIffNoData ==
  /\ visualizationType = "waveform" =>
       canvas["waveform"] =
         IF audioData = Null THEN <<"placeholder">> ELSE <<"data">>
  /\ visualizationType = "spectrum" =>
       canvas["spectrum"] =
         IF audioData = Null THEN <<"placeholder">> ELSE <<"data">>
  /\ visualizationType = "spectrograph" =>
       canvas["spectrograph"] =
         IF spectrumHistory = << >>
           THEN <<"placeholder", "placeholder">>
           ELSE <<"data", "data">>
  /\ visualizationType = "timeSeries" =>
       canvas["timeSeries"] =
         IF Len(timeSeriesData) <= 1 THEN <<"placeholder">> ELSE <<"data">>

\* C16 witness: the time series is active and holds a single point, the case
\* between no data and a drawable line.
C16_Witness ==
  /\ visualizationType = "timeSeries"
  /\ Len(timeSeriesData) = 1
  /\ audioData # Null

\* C17: a step that opens or closes the settings panel, changes one of its
\* controls or moves the time-scale slider leaves isRecording, isPlaying,
\* gain, audioData, recordedData and both visualizer histories unchanged.
C17_DisplayOnly ==
  [][(\/ showSettings' # showSettings
      \/ settingsControl' # settingsControl
      \/ timeScale' # timeScale)
       => UNCHANGED <<isRecording, isPlaying, gain, audioData, audioDataRef,
                      recordedData, timeSeriesData, spectrumHistory>>]_vars

\* C17 witness: while a recording with data in a history is in progress, the
\* time-scale slider has been moved with the settings panel open and one of
\* its controls changed.
C17_Witness ==
  /\ lastEvent = "timeScaleChange"
  /\ timeScale # InitialTimeScale
  /\ showSettings
  /\ settingsControl = "changed"
  /\ isRecording
  /\ recordedData # << >>
  /\ timeSeriesData # << >>

\* C18: a playback frame presents the buffer at playbackIndex and moves on by
\* one, and the frame after the last buffer of the recording being played
\* (the recording as it was when Play Recording was pressed) ends playback
\* with playbackIndex back at 0.
C18_PlaybackInOrderAndEnds ==
  [][(AnimationFrame /\ isPlaying) =>
       \A i \in DOMAIN rafQueue :
         rafQueue[i].kind = "playNextFrame" =>
           IF playbackIndex < Len(rafQueue[i].recordedData)
             THEN /\ audioData' = <<recordedData[playbackIndex + 1]>>
                  /\ audioDataRef' = playbackIndex + 1
                  /\ playbackIndex' = playbackIndex + 1
             ELSE /\ isPlaying' = FALSE
                  /\ playbackIndex' = 0]_vars

\* C19: recording and playback are never both on.
C19_RecordingExcludesPlayback == ~(isRecording /\ isPlaying)

\* C20: Stop Playback cancels the pending playback frame and leaves
\* playbackRef null, isPlaying false and playbackIndex 0; while not playing no
\* playback frame is pending (and never more than one is), and no animation
\* frame then sets audioData to a buffer of the recording.
C20_StopPlaybackEndsPlayback ==
  /\ [][HandleStopPlayback =>
          /\ NumPlayNextFrame(rafQueue') = 0
          /\ playbackRef' = 0
          /\ isPlaying' = FALSE
          /\ playbackIndex' = 0]_vars
  /\ [](/\ NumPlayNextFrame(rafQueue) <= 1
        /\ ~isPlaying => NumPlayNextFrame(rafQueue) = 0)
  /\ [][(AnimationFrame /\ ~isPlaying) =>
          \/ audioDataRef' = FreshRef
          \/ UNCHANGED <<audioData, audioDataRef>>]_vars

\* C20 witness: playback has been stopped after it had presented a buffer, and
\* a capture callback is still pending.
C20_Witness ==
  /\ lastEvent = "stopPlayback"
  /\ ~isPlaying
  /\ audioDataRef # FreshRef
  /\ rafQueue # << >>

\* C21: Start Recording discards the previous recording: right after the
\* click recordedData is empty or holds the one buffer the capture effect took
\* in that very step; every other step only appends, and what it appends is
\* the input of that step (times a gain of the slider).  So every buffer in
\* recordedData was captured after the last start.
C21_StartDiscardsRecording ==
  /\ [][HandleStartRecording =>
          \/ recordedData' = << >>
          \/ \E g \in GainValues :
               recordedData' = <<Amplify(timeDomainData, g)>>]_vars
  /\ [][~HandleStartRecording =>
          /\ Len(recordedData') >= Len(recordedData)
          /\ SubSeq(recordedData', 1, Len(recordedData)) = recordedData
          /\ \A k \in (Len(recordedData) + 1)..Len(recordedData') :
               \E g \in GainValues :
                 recordedData'[k] = Amplify(timeDomainData, g)]_vars

\* C21 witness: a second recording has just been started while the capture
\* callback of an earlier one is still pending, and holds one buffer.
C21_Witness ==
  /\ lastEvent = "startRecording"
  /\ Len(recordedData) = 1
  /\ NumUpdateData(rafQueue) >= 2

\* C25: at most one AudioContext is ever constructed and at most one
\* getUserMedia request ever issued (so never more than one outstanding or
\* open), and a Start Recording that finds an audio context constructs no
\* second one and issues no request.
C25_OneContextOneStream ==
  /\ [](/\ contextsCreated <= 1
        /\ streamRequests <= 1
        /\ audioContext <=> contextsCreated = 1)
  /\ [][(HandleStartRecording /\ audioContext) =>
          UNCHANGED <<contextsCreated, streamRequests, stream>>]_vars

\* C25 witness: recording has been started again with the context in place.
C25_Witness ==
  /\ lastEvent = "startRecording"
  /\ isRecording
  /\ stream = "open"
  /\ contextsCreated = 1
  /\ streamRequests = 1

\* C23: the time-series history never holds more than 500 points, and it is
\* the most recent points in arrival order: with the chart on from the first
\* buffer, its k-th point is the mean magnitude of the k-th of the last
\* Len(timeSeriesData) buffers that arrived, all of them up to 500 arrivals
\* and exactly the last 500 from then on.
C23_SeriesKeepsLast500 ==
  /\ Len(timeSeriesData) <= 500
  /\ visualizationType = "timeSeries" =>
       /\ Len(timeSeriesData) = Min(Len(recordedData), 500)
       /\ \A k \in 1..Len(timeSeriesData) :
            timeSeriesData[k] =
              NewDataPoint(recordedData[Len(recordedData)
                                          - Len(timeSeriesData) + k])

\* C23 witness: more than 500 buffers have arrived, the chart is full and its
\* newest point differs from the one before it.
C23_Witness ==
  /\ visualizationType = "timeSeries"
  /\ Len(recordedData) > 500
  /\ Len(timeSeriesData) = 500
  /\ timeSeriesData[500] # timeSeriesData[499]

\* C26: every cell the spectrograph paints has an intensity in 0..255 and
\* red, green and blue components that are integers in 0..255; intensity 0 is
\* painted black, 200 and more white, and the thresholds 40, 80, 120, 160 and
\* 200 choose the band: black to blue (no red, no green), blue to purple
\* (no green, full blue), purple to red (full red, no green, some blue),
\* red to yellow (full red, no blue), yellow to white (full red and green).
C26_ColourRamp ==
  \A c \in fillStyles :
    LET i == c.intensity
        r == c.fillStyle[1]
        g == c.fillStyle[2]
        b == c.fillStyle[3]
    IN  /\ i \in 0..255
        /\ Len(c.fillStyle) = 3
        /\ r \in 0..255 /\ g \in 0..255 /\ b \in 0..255
        /\ i = 0 => c.fillStyle = <<0, 0, 0>>
        /\ i >= 200 => c.fillStyle = <<255, 255, 255>>
        /\ i < 40 => r = 0 /\ g = 0 /\ b < 255
        /\ (40 <= i /\ i < 80) => r < 255 /\ g = 0 /\ b = 255
        /\ (80 <= i /\ i < 120) => r = 255 /\ g = 0 /\ b > 0
        /\ (120 <= i /\ i < 160) => r = 255 /\ g < 255 /\ b = 0
        /\ (160 <= i /\ i < 200) => r = 255 /\ g = 255 /\ b < 255

\* C26 witness: a cell of intensity 100 is on the canvas, painted in the
\* purple-to-red band.
C26_Witness ==
  \E c \in fillStyles : c.intensity = 100 /\ c.fillStyle = <<255, 0, 135>>

\* Something has been captured: audioData is non-null and recordedData is
\* non-empty.
Captured == audioData # Null /\ recordedData # << >>

\* C22 as stated: a recording that has been started, its stream requested or
\* open, leads to capture, unless the request is rejected (the stream is not
\* available then).
C22_StartLeadsToCapture ==
  (isRecording /\ stream \in {"pending", "open"})
    ~> (Captured \/ stream = "failed")

\* C22, amended: a recording that has been started, its stream requested or
\* open, leads to capture unless the request is rejected or Stop Recording is
\* clicked before the stream opens.
C22_StartLeadsToCaptureUnlessStopped ==
  (isRecording /\ stream \in {"pending", "open"})
    ~> (Captured \/ stream = "failed" \/ ~isRecording)

\* C22 witness: the stream has just opened on a recording still on, and its
\* first buffer is captured.
C22_Witness ==
  /\ lastEvent = "getUserMediaResolved"
  /\ isRecording
  /\ Captured
  /\ Len(recordedData) = 1

\* C24: a component that is not the active tab accumulates nothing: a step
\* before and after which the time-series tab is not selected leaves
\* timeSeriesData as it is, however audioData changes, and likewise the
\* spectrograph tab and spectrumHistory; and a step that leaves audioData null
\* appends to neither history, active or not.
C24_InactiveAccumulatesNothing ==
  /\ [][(visualizationType # "timeSeries" /\ visualizationType' # "timeSeries")
          => timeSeriesData' = timeSeriesData]_vars
  /\ [][(visualizationType # "spectrograph"
           /\ visualizationType' # "spectrograph")
          => spectrumHistory' = spectrumHistory]_vars
  /\ [][audioData' = Null =>
          /\ Len(timeSeriesData') <= Len(timeSeriesData)
          /\ Len(spectrumHistory') <= Len(spectrumHistory)]_vars
  /\ [](audioData = Null => timeSeriesData = << >> /\ spectrumHistory = << >>)

\* C24 witness: the time-series component is mounted and inactive, holds a
\* point from the time it was active, and further buffers have arrived since.
C24_Witness ==
  /\ ~unmountInactive
  /\ visualizationType # "timeSeries"
  /\ Len(timeSeriesData) = 1
  /\ Len(recordedData) = 3
  /\ lastEvent = "animationFrame"

====
